---- MODULE Spec2Model ----
(***************************************************************************)
(* Forecast-data normalisation pipeline of the Hepatitis B dashboard:      *)
(*   data_loader.py : load_forecast_csv_path, load_forecast_filelike,      *)
(*                    _normalize_forecast_df (behind st.cache_data)        *)
(*   app.py         : load_monthly_forecast, gen_metrics                   *)
(*                                                                         *)
(* Numbers are kept exactly.  A number is c + k*sigma in units of 1/2,     *)
(* where sigma is the sample standard deviation of the prediction series   *)
(* of the table the number belongs to; sigma itself is irrational in       *)
(* general and is carried by its square (the sample variance, a rational). *)
(* pandas' parsers (read_csv, to_numeric, to_datetime) are modelled on the *)
(* strings of the model's universe character by character.                 *)
(***************************************************************************)
EXTENDS Integers, Sequences, FiniteSets, TLC

VARIABLES
    file,       \* the CSV source handed to a loader (or NoFile)
    call,       \* which loader ran on it, with its arguments and widget picks
    result,     \* what the loader returned: a table or a raised error
    mdf,        \* gen_metrics: the forecast rows it is given
    metrics,    \* gen_metrics: the metrics table it returns
    disk,       \* cached loader: content version at each path
    clock,      \* cached loader: seconds elapsed
    cache,      \* cached loader: st.cache_data entries of load_forecast_csv_path
    served      \* cached loader: last call's path, source version and returned version

loadVars == <<file, call, result>>
metricVars == <<mdf, metrics>>
cacheVars == <<disk, clock, cache, served>>
vars == <<file, call, result, mdf, metrics, disk, clock, cache, served>>

-----------------------------------------------------------------------------
(* Bounds of the model *)

MaxRows == 2        \* rows of a CSV source
MaxMetricRows == 8  \* rows handed to gen_metrics (the window is 7)
MaxClock == 3       \* clock ticks of the cached-loader model
MaxVersion == 2     \* file versions written to one path

-----------------------------------------------------------------------------
(* Cells *)

NaN == [t |-> "nan"]
NaT == [t |-> "nat"]
Num(c, k) == [t |-> "num", c |-> c, k |-> k]
Str(s) == [t |-> "str", s |-> s]
Date(d, ns) == [t |-> "date", d |-> d, ns |-> ns]
Anon == [t |-> "anon"]

IsNum(x) == x.t = "num"
IsNumeric(x) == x.t \in {"num", "nan"}

\* 1 in the model's unit of 1/2
Unit == 2

-----------------------------------------------------------------------------
(* Strings *)

Char(s, i) == SubSeq(s, i, i)

DigitVal ==
    [ch \in {"0", "1", "2", "3", "4", "5", "6", "7", "8", "9"} |->
        CASE ch = "0" -> 0 [] ch = "1" -> 1 [] ch = "2" -> 2 [] ch = "3" -> 3
          [] ch = "4" -> 4 [] ch = "5" -> 5 [] ch = "6" -> 6 [] ch = "7" -> 7
          [] ch = "8" -> 8 [] OTHER -> 9]

DigitChar == <<"0", "1", "2", "3", "4", "5", "6", "7", "8", "9">>

IsDigit(ch) == ch \in DOMAIN DigitVal

RECURSIVE IndexIn(_, _, _)
IndexIn(ch, s, i) ==
    IF i > Len(s) THEN 0
    ELSE IF Char(s, i) = ch THEN i ELSE IndexIn(ch, s, i + 1)

AllDigits(s) == Len(s) > 0 /\ \A i \in 1..Len(s) : IsDigit(Char(s, i))

RECURSIVE DigitsVal(_)
DigitsVal(s) ==
    IF Len(s) = 0 THEN 0
    ELSE 10 * DigitsVal(SubSeq(s, 1, Len(s) - 1)) + DigitVal[Char(s, Len(s))]

Contains(s, k) ==
    \E i \in 1..(Len(s) - Len(k) + 1) : SubSeq(s, i, i + Len(k) - 1) = k

\* str.lower() on the letters A-Z
LowerOf ==
    [ch \in {"A", "B", "C", "D", "E", "F", "G", "H", "I", "J", "K", "L", "M",
             "N", "O", "P", "Q", "R", "S", "T", "U", "V", "W", "X", "Y", "Z"} |->
        CASE ch = "A" -> "a" [] ch = "B" -> "b" [] ch = "C" -> "c" [] ch = "D" -> "d"
          [] ch = "E" -> "e" [] ch = "F" -> "f" [] ch = "G" -> "g" [] ch = "H" -> "h"
          [] ch = "I" -> "i" [] ch = "J" -> "j" [] ch = "K" -> "k" [] ch = "L" -> "l"
          [] ch = "M" -> "m" [] ch = "N" -> "n" [] ch = "O" -> "o" [] ch = "P" -> "p"
          [] ch = "Q" -> "q" [] ch = "R" -> "r" [] ch = "S" -> "s" [] ch = "T" -> "t"
          [] ch = "U" -> "u" [] ch = "V" -> "v" [] ch = "W" -> "w" [] ch = "X" -> "x"
          [] ch = "Y" -> "y" [] OTHER -> "z"]

LowerChar(ch) == IF ch \in DOMAIN LowerOf THEN LowerOf[ch] ELSE ch

RECURSIVE Lower(_)
Lower(s) == IF Len(s) = 0 THEN "" ELSE LowerChar(Char(s, 1)) \o Lower(SubSeq(s, 2, Len(s)))

RECURSIVE Strip(_)
Strip(s) ==
    IF Len(s) = 0 THEN s
    ELSE IF Char(s, 1) = " " THEN Strip(SubSeq(s, 2, Len(s)))
    ELSE IF Char(s, Len(s)) = " " THEN Strip(SubSeq(s, 1, Len(s) - 1))
    ELSE s

\* str.replace(r'[^\d\.\-]', '', regex=True)
RECURSIVE StripNonNumeric(_)
StripNonNumeric(s) ==
    IF Len(s) = 0 THEN ""
    ELSE (IF IsDigit(Char(s, 1)) \/ Char(s, 1) \in {".", "-"} THEN Char(s, 1) ELSE "")
         \o StripNonNumeric(SubSeq(s, 2, Len(s)))

-----------------------------------------------------------------------------
(* pandas parsers on the strings of the model *)

RECURSIVE IntToStr(_)
IntToStr(n) ==
    IF n < 0 THEN "-" \o IntToStr(-n)
    ELSE IF n < 10 THEN DigitChar[n + 1]
    ELSE IntToStr(n \div 10) \o DigitChar[(n % 10) + 1]

DotAt(s) == IndexIn(".", s, 1)

\* A decimal literal: optional sign, digits, optional fraction .0 or .5 (the
\* model's unit is 1/2; other fractions are outside its universe).
ParseNumber(s) ==
    LET neg == Len(s) > 0 /\ Char(s, 1) = "-"
        body == IF neg THEN SubSeq(s, 2, Len(s)) ELSE s
        dot == DotAt(body)
        ip == IF dot = 0 THEN body ELSE SubSeq(body, 1, dot - 1)
        frac == IF dot = 0 THEN "0" ELSE SubSeq(body, dot + 1, Len(body))
        mag == Unit * DigitsVal(ip) + (IF frac = "5" THEN 1 ELSE 0)
    IN  IF AllDigits(ip) /\ frac \in {"0", "5"}
        THEN Num(IF neg THEN -mag ELSE mag, 0)
        ELSE NaN

\* pd.to_numeric(column, errors="coerce") on one cell
ToNumeric(x) ==
    CASE x.t = "num" -> x
      [] x.t = "str" -> ParseNumber(Strip(x.s))
      [] OTHER -> NaN

DaysIn(m) == IF m = 2 THEN 28 ELSE IF m \in {4, 6, 9, 11} THEN 30 ELSE 31

Ordinal(y, m, d) == (y * 12 + (m - 1)) * 31 + d

\* The day 1970-01-01, origin of integers read as timestamps
EpochDay == Ordinal(1970, 1, 1)

\* pd.to_datetime on a string: a full calendar date YYYY-MM-DD resolves; a
\* year-month string YYYY-MM does not until "-01" is appended (app.py:127-131);
\* anything else does not resolve.
ParseDate(s) ==
    IF /\ Len(s) = 10
       /\ Char(s, 5) = "-" /\ Char(s, 8) = "-"
       /\ AllDigits(SubSeq(s, 1, 4)) /\ AllDigits(SubSeq(s, 6, 7))
       /\ AllDigits(SubSeq(s, 9, 10))
    THEN LET y == DigitsVal(SubSeq(s, 1, 4))
             m == DigitsVal(SubSeq(s, 6, 7))
             d == DigitsVal(SubSeq(s, 9, 10))
         IN  IF m \in 1..12 /\ d \in 1..DaysIn(m) THEN Date(Ordinal(y, m, d), 0) ELSE NaT
    ELSE NaT

\* pd.to_datetime(column, errors="coerce") on one cell; a number is read as
\* nanoseconds since the epoch.
ToDatetime(x) ==
    CASE x.t = "date" -> x
      [] x.t = "str" -> ParseDate(Strip(x.s))
      [] x.t = "num" -> Date(EpochDay, x.c)
      [] OTHER -> NaT

\* column.astype(str) on one cell
AsTypeStr(x) ==
    CASE x.t = "str" -> x.s
      [] x.t = "num" -> IntToStr(x.c \div Unit) \o (IF x.c % Unit = 0 THEN "" ELSE ".5")
      [] OTHER -> "nan"

-----------------------------------------------------------------------------
(* CSV sources and pd.read_csv *)

NoFile == [cols |-> <<>>, rows |-> <<>>, exists |-> FALSE]
Csv(cols, rows) == [cols |-> cols, rows |-> rows, exists |-> TRUE]

\* Strings read_csv takes for a missing value
NaStrings == {"", "NA", "nan"}

ColIndex(cols, c) == CHOOSE i \in 1..Len(cols) : cols[i] = c
ColSet(cols) == {cols[i] : i \in 1..Len(cols)}

CsvCell(csv, i, c) == csv.rows[i][ColIndex(csv.cols, c)]

\* read_csv's dtype inference: a column is numeric when the file has rows and
\* every cell of the column is missing or a number
CsvNumericCol(csv, c) ==
    /\ Len(csv.rows) > 0
    /\ \A i \in 1..Len(csv.rows) :
          \/ CsvCell(csv, i, c) \in NaStrings
          \/ IsNum(ParseNumber(CsvCell(csv, i, c)))

ReadCell(s, numeric) ==
    IF s \in NaStrings THEN NaN
    ELSE IF numeric THEN ParseNumber(s)
    ELSE Str(s)

\* pd.read_csv(path, low_memory=False): a frame of named columns
ReadCsv(csv) ==
    LET numeric == [c \in ColSet(csv.cols) |-> CsvNumericCol(csv, c)]
    IN  [cols |-> csv.cols,
         rows |-> [i \in 1..Len(csv.rows) |->
                     [c \in ColSet(csv.cols) |-> ReadCell(CsvCell(csv, i, c), numeric[c])]]]

NRows(df) == Len(df.rows)

\* select_dtypes(include=[np.number]) on one column
NumericDtype(df, c) ==
    NRows(df) > 0 /\ \A i \in 1..NRows(df) : IsNumeric(df.rows[i][c])

-----------------------------------------------------------------------------
(* Outcomes of a loader *)

NoResult == [kind |-> "none"]
Raised(e) == [kind |-> "error", error |-> e]
Table(cols, rows) == [kind |-> "table", cols |-> cols, rows |-> rows]

IsTable(r) == r.kind = "table"
IsError(r) == r.kind = "error"

-----------------------------------------------------------------------------
(* Arithmetic on cells: NaN propagates *)

Add(x, y) == IF IsNum(x) /\ IsNum(y) THEN Num(x.c + y.c, x.k + y.k) ELSE NaN
Sub(x, y) == IF IsNum(x) /\ IsNum(y) THEN Num(x.c - y.c, x.k - y.k) ELSE NaN
Twice(x) == IF IsNum(x) THEN Num(2 * x.c, 2 * x.k) ELSE NaN

RECURSIVE SumSeq(_)
SumSeq(q) == IF q = <<>> THEN 0 ELSE Head(q) + SumSeq(Tail(q))

\* The values of the non-NaN cells of a numeric series, in order
Values(series) ==
    LET kept == SelectSeq(series, IsNum)
    IN  [i \in 1..Len(kept) |-> kept[i].c]

Squares(q) == [i \in 1..Len(q) |-> q[i] * q[i]]

\* Series.std(skipna=True): NaN below two values, else the square root of
\* Variance(series) = (n*sum(x^2) - sum(x)^2) / (n*(n-1)), kept as <<num, den>>
StdDefined(series) == Len(Values(series)) >= 2

Variance(series) ==
    LET q == Values(series)
        n == Len(q)
    IN  IF n >= 2
        THEN <<n * SumSeq(Squares(q)) - SumSeq(q) * SumSeq(q), n * (n - 1)>>
        ELSE <<0, 1>>

\* sigma as a cell: 1 * sigma, or NaN
Std(series) == IF StdDefined(series) THEN Num(0, 1) ELSE NaN

\* `not np.isnan(sigma) and sigma > 0`
SigmaUsable(series) == IsNum(Std(series)) /\ Variance(series)[1] > 0

\* x <= y for numbers c + k*sigma with sigma^2 = var[1]/var[2]; false when
\* either side is NaN, as IEEE comparison is
Leq(x, y, var) ==
    /\ IsNum(x) /\ IsNum(y)
    /\ LET d == x.c - y.c      \* d <= e * sigma ?
           e == y.k - x.k
       IN  IF e >= 0
           THEN d <= 0 \/ d * d * var[2] <= e * e * var[1]
           ELSE d <= 0 /\ d * d * var[2] >= e * e * var[1]

-----------------------------------------------------------------------------
(* Ordering a frame by date *)

IsNaT(x) == x.t = "nat"

DateLeq(a, b) == a.d < b.d \/ (a.d = b.d /\ a.ns <= b.ns)

\* sort_values("date") puts nulls last; the order among equal dates is whatever
\* the sort leaves
KeyLeq(a, b) ==
    IF IsNaT(b) \/ b.t # "date" THEN TRUE
    ELSE IF IsNaT(a) \/ a.t # "date" THEN FALSE
    ELSE DateLeq(a, b)

SortOrders(rows) ==
    {p \in Permutations(1..Len(rows)) :
        \A i \in 1..(Len(rows) - 1) : KeyLeq(rows[p[i]].date, rows[p[i + 1]].date)}

\* the frame left in the order it came in
SortValuesSkipped(rows) == {rows}

\* df.sort_values("date").reset_index(drop=True): every frame the sort may give
SortValues(rows) == {[i \in 1..Len(rows) |-> rows[p[i]]] : p \in SortOrders(rows)}

NotNaTDate(row) == ~IsNaT(row.date)

\* df.dropna(subset=["date"])
DropNaDate(rows) == SelectSeq(rows, NotNaTDate)

-----------------------------------------------------------------------------
(* app.py: load_monthly_forecast *)

DateKeywords == {"date", "month", "period", "year"}
ValueKeywords == {"forecast", "pred", "median", "value", "count", "case", "cases", "n_", "total"}
ActualKeywords == {"actual", "observed", "obs", "report"}

\* any(k in c.lower() for k in keywords)
NameHas(c, keywords) == \E k \in keywords : Contains(Lower(c), k)

date_like(df) == SelectSeq(df.cols, LAMBDA c : NameHas(c, DateKeywords))

numeric_cols(df) == SelectSeq(df.cols, LAMBDA c : NumericDtype(df, c))

numeric_like(df) ==
    SelectSeq(df.cols, LAMBDA c :
        /\ ~NumericDtype(df, c)
        /\ \E i \in 1..NRows(df) : Len(StripNonNumeric(AsTypeStr(df.rows[i][c]))) > 0)

\* the options of the sidebar's date selectbox
date_options(df) == IF date_like(df) # <<>> THEN date_like(df) ELSE df.cols

preferred(df) ==
    SelectSeq(numeric_cols(df) \o numeric_like(df), LAMBDA c : NameHas(c, ValueKeywords))

\* candidates in the order of the file's columns
candidate_value_cols_by_position(df) ==
    LET eligible == SelectSeq(df.cols, LAMBDA c :
                        \E i \in 1..Len(numeric_cols(df) \o numeric_like(df)) :
                            (numeric_cols(df) \o numeric_like(df))[i] = c)
        found == SelectSeq(eligible, LAMBDA c : NameHas(c, ValueKeywords))
    IN  IF found # <<>> THEN found ELSE eligible

candidate_value_cols(df) ==
    LET found == preferred(df)
    IN  IF found # <<>> THEN found ELSE numeric_cols(df) \o numeric_like(df)

\* st.sidebar.selectbox(label, options, index=0): the option the widget holds,
\* the first one until the user picks another
Selectbox(options, pick) == options[pick]

AllNaT(q) == \A i \in 1..Len(q) : IsNaT(q[i])
AnyNaT(q) == \E i \in 1..Len(q) : IsNaT(q[i])

DirectDates(df, date_col) == [i \in 1..NRows(df) |-> ToDatetime(df.rows[i][date_col])]

SuffixedDates(df, date_col) ==
    [i \in 1..NRows(df) |->
        ToDatetime(Str(Strip(AsTypeStr(df.rows[i][date_col])) \o "-01"))]

\* lines 128-135: the date series the output is built from
ResolveDates(df, date_col) ==
    LET first == DirectDates(df, date_col)
        second == IF AllNaT(first) THEN SuffixedDates(df, date_col) ELSE first
    IN  IF AnyNaT(second) THEN DirectDates(df, date_col) ELSE second

Predictions(df, value_col) == [i \in 1..NRows(df) |-> ToNumeric(df.rows[i][value_col])]

possible_actual(df) == SelectSeq(df.cols, LAMBDA c : NameHas(c, ActualKeywords))

Actuals(df) ==
    LET found == possible_actual(df)
    IN  [i \in 1..NRows(df) |->
            IF found # <<>> THEN ToNumeric(df.rows[i][found[1]]) ELSE NaN]

\* fixed half-widths, in units of 1/2: 1.5 and 3.0
Pi80Fixed == 3
Pi95Fixed == 6

\* lines 151-152
MonthlyPi80(pm) == IF SigmaUsable(pm) THEN Std(pm) ELSE Num(Pi80Fixed, 0)

\* lines 156-157: pi95 = 2 * (sigma if usable else 3.0)
MonthlyPi95(pm) == Twice(IF SigmaUsable(pm) THEN Std(pm) ELSE Num(Pi95Fixed, 0))

MonthlyCols == <<"date", "predicted_median", "actual", "pi80_low", "pi80_high", "pi95_low", "pi95_high">>

\* the frame `out` before dropna / sort
MonthlyOut(df, date_col, value_col) ==
    LET dates == ResolveDates(df, date_col)
        pm == Predictions(df, value_col)
        act == Actuals(df)
        pi80 == MonthlyPi80(pm)
        pi95 == MonthlyPi95(pm)
    IN  [i \in 1..NRows(df) |->
            [date |-> dates[i],
             predicted_median |-> pm[i],
             actual |-> act[i],
             pi80_low |-> Sub(pm[i], pi80),
             pi80_high |-> Add(pm[i], pi80),
             pi95_low |-> Sub(pm[i], pi95),
             pi95_high |-> Add(pm[i], pi95)]]

\* every outcome load_monthly_forecast(path) can have with the sidebar's
\* selectboxes holding options dsel and vsel
\* lines 115-119 and 121-125: the columns the function goes on with ("" when
\* it has raised before)
date_col(csv, dsel) ==
    IF ~csv.exists THEN "" ELSE Selectbox(date_options(ReadCsv(csv)), dsel)

value_col(csv, vsel) ==
    IF ~csv.exists \/ candidate_value_cols(ReadCsv(csv)) = <<>> THEN ""
    ELSE Selectbox(candidate_value_cols(ReadCsv(csv)), vsel)

load_monthly_forecast(csv, dsel, vsel) ==
    IF ~csv.exists THEN {Raised("FileNotFoundError")}
    ELSE IF candidate_value_cols(ReadCsv(csv)) = <<>> THEN {Raised("ValueError")}
    ELSE LET out == MonthlyOut(ReadCsv(csv), date_col(csv, dsel), value_col(csv, vsel))
         IN  {Table(MonthlyCols, rows) : rows \in SortValues(DropNaDate(out))}

-----------------------------------------------------------------------------
(* data_loader.py: _normalize_forecast_df and the loaders around it *)

REQUIRED_FORECAST_COLS == {"date", "predicted_median"}

HasCols(df, names) == names \subseteq ColSet(df.cols)

\* df[c] = values: the column is replaced in place, or appended when new
Assign(df, c, values) ==
    [cols |-> IF c \in ColSet(df.cols) THEN df.cols ELSE Append(df.cols, c),
     rows |-> [i \in 1..NRows(df) |->
                 [x \in ColSet(df.cols) \cup {c} |->
                     IF x = c THEN values[i] ELSE df.rows[i][x]]]]

\* df.rename(columns=lambda c: c.strip())
RenameStripped(df) ==
    [cols |-> [j \in 1..Len(df.cols) |-> Strip(df.cols[j])],
     rows |-> [i \in 1..NRows(df) |->
                 [x \in {Strip(c) : c \in ColSet(df.cols)} |->
                     df.rows[i][CHOOSE c \in ColSet(df.cols) : Strip(c) = x]]]]

\* pd.read_csv(source, parse_dates=["date"]): the date column becomes
\* timestamps when every cell of it resolves, and is left as read otherwise
ReadCsvParseDates(csv) ==
    LET df == ReadCsv(csv)
        parsed == DirectDates(df, "date")
    IN  IF AnyNaT(parsed) THEN df ELSE Assign(df, "date", parsed)

IsDatetimeDtype(df, c) == \A i \in 1..NRows(df) : df.rows[i][c].t = "date"

\* lines 41-42
EnsureDatetime(df) ==
    IF IsDatetimeDtype(df, "date") /\ NRows(df) > 0 THEN df
    ELSE Assign(df, "date", DirectDates(df, "date"))

\* lines 46-47
EnsureActual(df) ==
    IF "actual" \in ColSet(df.cols) THEN df
    ELSE Assign(df, "actual", [i \in 1..NRows(df) |-> NaN])

Shifted(df, sign, width) ==
    [i \in 1..NRows(df) |->
        IF sign > 0 THEN Add(df.rows[i].predicted_median, Num(width, 0))
        ELSE Sub(df.rows[i].predicted_median, Num(width, 0))]

\* lines 48-51 and 52-55: one pair of bounds is written unless both its
\* columns are there
EnsureBounds(df, low, high, width) ==
    IF HasCols(df, {low, high}) THEN df
    ELSE Assign(Assign(df, low, Shifted(df, -1, width)), high, Shifted(df, 1, width))

\* lines 58-59
Anonymized(df, anonymize) ==
    IF anonymize /\ "patient_id" \in ColSet(df.cols)
    THEN Assign(df, "patient_id", [i \in 1..NRows(df) |-> Anon])
    ELSE df

\* predicted_median - 1.5 on a column of strings raises
ArithmeticRaises(df) ==
    /\ ~(HasCols(df, {"pi80_low", "pi80_high"}) /\ HasCols(df, {"pi95_low", "pi95_high"}))
    /\ \E i \in 1..NRows(df) : df.rows[i].predicted_median.t = "str"

\* every outcome of _normalize_forecast_df(df, anonymize)
normalize_forecast_df(df0, anonymize) ==
    LET df == RenameStripped(df0)
    IN  IF ~HasCols(df, REQUIRED_FORECAST_COLS) THEN {Raised("ValueError")}
        ELSE IF ArithmeticRaises(df) THEN {Raised("TypeError")}
        ELSE LET dated == EnsureDatetime(df)
             IN  {LET sorted == [cols |-> dated.cols, rows |-> rows]
                      a == EnsureActual(sorted)
                      b == EnsureBounds(a, "pi80_low", "pi80_high", Pi80Fixed)
                      c == EnsureBounds(b, "pi95_low", "pi95_high", Pi95Fixed)
                      d == Anonymized(c, anonymize)
                  IN  Table(d.cols, d.rows) : rows \in SortValues(dated.rows)}

\* the body of load_forecast_filelike (lines 27-28); read_csv raises when the
\* column named in parse_dates is missing
load_forecast_filelike(csv, anonymize) ==
    IF "date" \notin ColSet(csv.cols) THEN {Raised("ValueError")}
    ELSE normalize_forecast_df(ReadCsvParseDates(csv), anonymize)

\* the body of load_forecast_csv_path (lines 19-22)
load_forecast_csv_path(csv, anonymize) ==
    IF ~csv.exists THEN {Raised("FileNotFoundError")}
    ELSE IF "date" \notin ColSet(csv.cols) THEN {Raised("ValueError")}
    ELSE normalize_forecast_df(ReadCsvParseDates(csv), anonymize)

-----------------------------------------------------------------------------
(* The CSV sources the loaders are run on *)

\* a layout is a header with, for every column, the strings its cells take
DateTexts == {"2025-01", "2025-02", "2025-03-01", "tbd"}
ValueTexts == {"10", "12", "x7"}

Layouts ==
    { << <<"Period", DateTexts>>, <<"Forecast_Cases", ValueTexts>> >>,
      << <<"date", {"2025-03-01", "2025-01", "tbd"}>>, <<"predicted_median", {"10", "", "x7"}>> >>,
      << <<"date", {"2025-02-01", "2025-01-01"}>>, <<"predicted_median", {"10", "12"}>>,
         <<"pi80_low", {"7"}>>, <<"pi80_high", {"13"}>>,
         <<"pi95_low", {"5"}>>, <<"pi95_high", {"16"}>> >>,
      << <<"date", {"2025-02-01", "2025-01-01"}>>, <<"predicted_median", {"10", "12"}>>,
         <<"pi80_low", {"7"}>> >>,
      << <<"date", {"2025-02-01", "2025-01-01"}>>, <<"predicted_median ", {"10", ""}>>,
         <<"patient_id", {"p1"}>>, <<"observed", {"9", ""}>> >>,
      << <<"label", {"a", "2025-01-01"}>>, <<"y", {"10", "12"}>> >>,
      << <<"month", {"2025-01", "2025-02-01"}>>, <<"cases_txt", {"12 est"}>>,
         <<"y", {"10"}>>, <<"pred", {"11", ""}>> >>,
      << <<"when", {"2025-01-01", "2025-02-01"}>>, <<"b_txt", {"3 approx"}>>,
         <<"a", {"10", "12"}>> >>,
      << <<"label", {"a"}>>, <<"note", {"tbd", "b"}>> >> }

Header(layout) == [j \in 1..Len(layout) |-> layout[j][1]]

RECURSIVE RowsOf(_)
RowsOf(layout) ==
    IF layout = <<>> THEN {<<>>}
    ELSE {<<x>> \o r : x \in Head(layout)[2], r \in RowsOf(Tail(layout))}

Sources ==
    {NoFile} \cup
    UNION {{Csv(Header(layout), rows) :
               rows \in UNION {[1..n -> RowsOf(layout)] : n \in 0..MaxRows}} :
           layout \in Layouts}

-----------------------------------------------------------------------------
(* Loader runs *)

\* a run: the loader, its anonymize argument, what the two selectboxes held
\* and the columns the loader went on with
Run(fn, anonymize, dsel, vsel, dcol, vcol) ==
    [fn |-> fn, anonymize |-> anonymize, dsel |-> dsel, vsel |-> vsel,
     date_col |-> dcol, value_col |-> vcol]
Idle == Run("none", FALSE, 1, 1, "", "")

AtLeastOne(n) == IF n < 1 THEN 1 ELSE n

\* what the two selectboxes can hold when load_monthly_forecast reads csv
DatePicks(csv) ==
    IF csv.exists THEN 1..AtLeastOne(Len(date_options(ReadCsv(csv)))) ELSE {1}
ValuePicks(csv) ==
    IF csv.exists THEN 1..AtLeastOne(Len(candidate_value_cols(ReadCsv(csv)))) ELSE {1}

InitLoad == /\ file \in Sources
            /\ call = Idle
            /\ result = NoResult

LoadMonthlyForecast ==
    /\ call.fn = "none"
    /\ \E dsel \in DatePicks(file), vsel \in ValuePicks(file) :
          /\ call' = Run("load_monthly_forecast", FALSE, dsel, vsel,
                         date_col(file, dsel), value_col(file, vsel))
          /\ result' \in load_monthly_forecast(file, dsel, vsel)
    /\ UNCHANGED <<file, metricVars, cacheVars>>

LoadForecastCsvPath ==
    /\ call.fn = "none"
    /\ \E anonymize \in BOOLEAN :
          /\ call' = Run("load_forecast_csv_path", anonymize, 1, 1, "date", "predicted_median")
          /\ result' \in load_forecast_csv_path(file, anonymize)
    /\ UNCHANGED <<file, metricVars, cacheVars>>

LoadForecastFilelike ==
    /\ call.fn = "none"
    /\ file.exists
    /\ \E anonymize \in BOOLEAN :
          /\ call' = Run("load_forecast_filelike", anonymize, 1, 1, "date", "predicted_median")
          /\ result' \in load_forecast_filelike(file, anonymize)
    /\ UNCHANGED <<file, metricVars, cacheVars>>

-----------------------------------------------------------------------------
(* app.py: gen_metrics *)

Window == 7
MinPeriods == 1

Ratio(n, d) == [t |-> "ratio", n |-> n, d |-> d]
Sqrt(x) == IF x.t = "ratio" THEN [t |-> "sqrt", n |-> x.n, d |-> x.d] ELSE NaN

\* (actual - predicted_median).abs()
AbsError(row) ==
    LET diff == Sub(row.actual, row.predicted_median)
    IN  IF IsNum(diff) THEN Num(IF diff.c < 0 THEN -diff.c ELSE diff.c, 0) ELSE NaN

\* error ** 2
Squared(x) == IF IsNum(x) THEN Num(x.c * x.c, 0) ELSE NaN

\* a window that never lets an observation go
RECURSIVE RollExpanding(_, _)
RollExpanding(q, i) ==
    IF i = 0 THEN [nobs |-> 0, sum |-> 0]
    ELSE LET prev == RollExpanding(q, i - 1)
         IN  IF IsNum(q[i])
             THEN [nobs |-> prev.nobs + 1, sum |-> prev.sum + q[i].c]
             ELSE prev

\* the running window of Series.rolling(Window, min_periods=MinPeriods) after
\* row i: the observation entering is added, the one leaving is removed
RECURSIVE Roll(_, _)
Roll(q, i) ==
    IF i = 0 THEN [nobs |-> 0, sum |-> 0]
    ELSE LET prev == Roll(q, i - 1)
             added == IF IsNum(q[i])
                      THEN [nobs |-> prev.nobs + 1, sum |-> prev.sum + q[i].c]
                      ELSE prev
         IN  IF i > Window /\ IsNum(q[i - Window])
             THEN [nobs |-> added.nobs - 1, sum |-> added.sum - q[i - Window].c]
             ELSE added

\* .rolling(7, min_periods=1).mean()
RollingMean(q) ==
    [i \in 1..Len(q) |->
        LET w == Roll(q, i)
        IN  IF w.nobs >= MinPeriods /\ w.nobs > 0 THEN Ratio(w.sum, w.nobs) ELSE NaN]

gen_metrics(df) ==
    LET error == [i \in 1..Len(df) |-> AbsError(df[i])]
        mae == RollingMean(error)
        mse == RollingMean([i \in 1..Len(df) |-> Squared(error[i])])
    IN  [i \in 1..Len(df) |->
            [actual |-> df[i].actual,
             predicted_median |-> df[i].predicted_median,
             error |-> error[i],
             MAE |-> mae[i],
             RMSE |-> Sqrt(mse[i])]]

\* rows of the forecast table gen_metrics is given: predictions of 1.0 with
\* the actual missing, 3.0 or 5.0
MetricRows ==
    {[actual |-> a, predicted_median |-> Num(2, 0)] : a \in {NaN, Num(6, 0), Num(10, 0)}}

NoMetrics == [done |-> FALSE, rows |-> <<>>]
Metrics(rows) == [done |-> TRUE, rows |-> rows]

InitMetrics == mdf = <<>> /\ metrics = NoMetrics

\* the caller's forecast table grows by a row
ForecastRow ==
    /\ ~metrics.done
    /\ Len(mdf) < MaxMetricRows
    /\ \E r \in MetricRows : mdf' = Append(mdf, r)
    /\ UNCHANGED <<metrics, loadVars, cacheVars>>

GenMetrics ==
    /\ ~metrics.done
    /\ metrics' = Metrics(gen_metrics(mdf))
    /\ UNCHANGED <<mdf, loadVars, cacheVars>>

-----------------------------------------------------------------------------
(* data_loader.py: load_forecast_csv_path behind @st.cache_data(ttl=300) *)

Ttl == 300
TickSeconds == 150

Paths == {"data/forecasts.csv"}

\* the contents a path can hold: nothing, or one of two tables that differ in
\* their columns and shape
Content(v) ==
    CASE v = 0 -> NoFile
      [] v = 1 -> Csv(<<"date", "predicted_median">>, << <<"2025-01-01", "10">> >>)
      [] OTHER -> Csv(<<"date", "predicted_median", "pi80_low", "pi80_high">>,
                      << <<"2025-01-01", "10", "7", "13">>, <<"2025-02-01", "12", "9", "15">> >>)

NoEntry == [present |-> FALSE, value |-> NoResult, stored |-> 0, from |-> 0]
Entry(value, stored, from) == [present |-> TRUE, value |-> value, stored |-> stored, from |-> from]

NotServed == [kind |-> "none", path |-> "", source |-> 0, from |-> 0, value |-> NoResult]
Served(kind, path, source, from, value) ==
    [kind |-> kind, path |-> path, source |-> source, from |-> from, value |-> value]

\* the cache key of st.cache_data is the wrapped function and its arguments
CacheKeys == Paths \X BOOLEAN

\* an entry is served until ttl seconds have passed since it was stored
Live(entry, now) == entry.present /\ now - entry.stored < Ttl

InitCache ==
    /\ disk \in [Paths -> 0..1]
    /\ clock = 0
    /\ cache = [key \in CacheKeys |-> NoEntry]
    /\ served = NotServed

InitCacheIdle ==
    /\ disk = [p \in Paths |-> 0]
    /\ clock = 0
    /\ cache = [key \in CacheKeys |-> NoEntry]
    /\ served = NotServed

\* the file at a path is replaced (or removed) outside the program
ReplaceFile ==
    /\ \E p \in Paths, v \in 0..MaxVersion :
          /\ v # disk[p]
          /\ disk' = [disk EXCEPT ![p] = v]
    /\ UNCHANGED <<clock, cache, served, loadVars, metricVars>>

Tick ==
    /\ clock < MaxClock * TickSeconds
    /\ clock' = clock + TickSeconds
    /\ UNCHANGED <<disk, cache, served, loadVars, metricVars>>

\* a call that finds a live entry for its arguments returns the entry's value
\* and does not run the function
CachedCallHit ==
    /\ \E p \in Paths, anonymize \in BOOLEAN :
          /\ Live(cache[<<p, anonymize>>], clock)
          /\ served' = Served("hit", p, disk[p], cache[<<p, anonymize>>].from,
                              cache[<<p, anonymize>>].value)
    /\ UNCHANGED <<disk, clock, cache, loadVars, metricVars>>

\* otherwise the function runs; its return value is stored, an exception is not
CachedCallMiss ==
    /\ \E p \in Paths, anonymize \in BOOLEAN :
          /\ ~Live(cache[<<p, anonymize>>], clock)
          /\ \E r \in load_forecast_csv_path(Content(disk[p]), anonymize) :
                /\ served' = Served("miss", p, disk[p], disk[p], r)
                /\ cache' = IF IsTable(r)
                            THEN [cache EXCEPT ![<<p, anonymize>>] = Entry(r, clock, disk[p])]
                            ELSE [cache EXCEPT ![<<p, anonymize>>] = NoEntry]
    /\ UNCHANGED <<disk, clock, loadVars, metricVars>>

InitLoadIdle == file = NoFile /\ call = Idle /\ result = NoResult

-----------------------------------------------------------------------------
(* Specifications *)

\* the three loaders on every source
Init == InitLoad /\ InitMetrics /\ InitCacheIdle
Next == LoadMonthlyForecast \/ LoadForecastCsvPath \/ LoadForecastFilelike
Spec == Init /\ [][Next]_vars

\* gen_metrics on every forecast table
InitM == InitLoadIdle /\ InitMetrics /\ InitCacheIdle
NextM == ForecastRow \/ GenMetrics
SpecMetrics == InitM /\ [][NextM]_vars

\* the cached loader while files change and time passes
InitC == InitLoadIdle /\ InitMetrics /\ InitCache
NextC == ReplaceFile \/ Tick \/ CachedCallHit \/ CachedCallMiss
SpecCache == InitC /\ [][NextC]_vars

-----------------------------------------------------------------------------
(* What the claims speak of, in a state after a loader has run *)

Monthly == call.fn = "load_monthly_forecast"
Normalized == call.fn \in {"load_forecast_csv_path", "load_forecast_filelike"}
Returned == IsTable(result)
Frame == ReadCsv(file)
OutRows == result.rows

Before(a, b) == a.t = "date" /\ b.t = "date" /\ (a.d < b.d \/ (a.d = b.d /\ a.ns < b.ns))

\* the date every input row is resolved to by the loader that ran
InputDates ==
    IF Monthly THEN ResolveDates(Frame, call.date_col) ELSE DirectDates(Frame, "date")

\* the input rows the loader that ran keeps
KeptInput ==
    IF Monthly THEN {i \in 1..NRows(Frame) : ~IsNaT(InputDates[i])} ELSE 1..NRows(Frame)

BoundCols == {"pi80_low", "pi80_high", "pi95_low", "pi95_high"}

Synthesized(low, high) ==
    Monthly \/ (Normalized /\ ~HasCols(RenameStripped(Frame), {low, high}))

SeriesVariance ==
    IF Monthly THEN Variance(Predictions(Frame, call.value_col)) ELSE <<0, 1>>

\* C2 as stated: every row of a returned table whose 80% and 95% bounds were
\* both synthesized has pi95_low <= pi80_low <= predicted_median <= pi80_high
\* <= pi95_high.
C2_SynthesizedBoundsNested ==
    (Returned /\ Synthesized("pi80_low", "pi80_high") /\ Synthesized("pi95_low", "pi95_high")) =>
        \A i \in 1..Len(OutRows) :
            LET r == OutRows[i]
            IN  /\ Leq(r.pi95_low, r.pi80_low, SeriesVariance)
                /\ Leq(r.pi80_low, r.predicted_median, SeriesVariance)
                /\ Leq(r.predicted_median, r.pi80_high, SeriesVariance)
                /\ Leq(r.pi80_high, r.pi95_high, SeriesVariance)

\* the sample standard deviation of a series is defined and > 0 exactly when
\* two of its values differ
Spread(series) ==
    \E i, j \in 1..Len(series) :
        IsNum(series[i]) /\ IsNum(series[j]) /\ series[i].c # series[j].c

\* C3 as stated: load_monthly_forecast writes predicted_median -/+ w80 and
\* -/+ w95 with w80 = s, w95 = 2*s when s is defined and > 0, and w80 = 1.5,
\* w95 = 3.0 otherwise.
C3_MonthlyHalfWidths ==
    (Monthly /\ Returned) =>
        LET spread == Spread(Predictions(Frame, call.value_col))
            w80 == IF spread THEN Num(0, 1) ELSE Num(Pi80Fixed, 0)
            w95 == IF spread THEN Num(0, 2) ELSE Num(Pi95Fixed, 0)
        IN  \A i \in 1..Len(OutRows) :
                LET r == OutRows[i]
                IN  /\ r.pi80_low = Sub(r.predicted_median, w80)
                    /\ r.pi80_high = Add(r.predicted_median, w80)
                    /\ r.pi95_low = Sub(r.predicted_median, w95)
                    /\ r.pi95_high = Add(r.predicted_median, w95)

Unresolvable ==
    /\ file.exists
    /\ NRows(Frame) > 0
    /\ IF Monthly
       THEN /\ call.date_col # ""
            /\ AllNaT(DirectDates(Frame, call.date_col))
            /\ AllNaT(SuffixedDates(Frame, call.date_col))
       ELSE "date" \in ColSet(Frame.cols) => AllNaT(DirectDates(Frame, "date"))

\* C5 as stated: when no row's date can be resolved the load ends in an error
\* and returns no table.
C5_NoDateRaises ==
    (call.fn # "none" /\ Unresolvable) => IsError(result)

\* C6 as stated: no returned table has a row whose predicted_median is NaN.
C6_NoNaNPrediction ==
    Returned => \A i \in 1..Len(OutRows) : OutRows[i].predicted_median.t # "nan"

\* C7 as stated: the values of every bound column the input supplies are the
\* values of that column in the returned table.
C7_SuppliedBoundsUnchanged ==
    Returned =>
        \A c \in BoundCols \cap ColSet(Frame.cols) :
            \A v \in {Frame.rows[i][c] : i \in KeptInput} \cup {OutRows[j][c] : j \in 1..Len(OutRows)} :
                Cardinality({j \in 1..Len(OutRows) : OutRows[j][c] = v})
                    = Cardinality({i \in KeptInput : Frame.rows[i][c] = v})

\* the columns load_monthly_forecast may take the prediction from: numeric
\* columns, then the others in which some cell holds a digit, "." or "-"
ValueOrder == numeric_cols(Frame) \o numeric_like(Frame)

Matching(order) == {i \in 1..Len(order) : NameHas(order[i], ValueKeywords)}

Least(S) == CHOOSE i \in S : \A j \in S : i <= j

FirstChoice(order) ==
    LET matching == Matching(order)
    IN  IF matching # {} THEN order[Least(matching)] ELSE order[1]

\* C9 as stated: the prediction column is the first column, numeric columns
\* before numeric-like ones, whose name holds a keyword, else the first
\* candidate; without candidates the load fails before any table is produced.
C9_FirstCandidateChosen ==
    (Monthly /\ file.exists) =>
        LET order == ValueOrder
        IN  IF order = <<>> THEN result = Raised("ValueError")
            ELSE call.value_col = FirstChoice(order)

\* C9 as amended: that first column is what the value selectbox holds until
\* the user picks another; the column used is the one the selectbox holds,
\* always one of the keyword-matching candidates, or of all candidates when
\* none matches; without candidates the load fails before any table is produced.
C9_SelectedAmongCandidates ==
    (Monthly /\ file.exists) =>
        LET order == ValueOrder
            matching == Matching(order)
        IN  IF order = <<>> THEN result = Raised("ValueError")
            ELSE /\ call.vsel = 1 => call.value_col = FirstChoice(order)
                 /\ \E i \in 1..Len(order) :
                       /\ call.value_col = order[i]
                       /\ matching # {} => i \in matching
                 /\ Returned

\* a load in which the user left the selectbox alone and the column used
\* stands, in the file, after a numeric-like column whose name is as good
C9_NumericBeforeNumericLike ==
    /\ Monthly /\ Returned /\ call.vsel = 1
    /\ LET df == Frame
           like == numeric_like(df)
       IN  \E i, j \in 1..Len(df.cols) :
              /\ i < j
              /\ df.cols[j] = call.value_col
              /\ \E k \in 1..Len(like) : like[k] = df.cols[i]
              /\ NameHas(df.cols[i], ValueKeywords) = NameHas(df.cols[j], ValueKeywords)

RECURSIVE SumOver(_, _)
SumOver(S, f) ==
    IF S = {} THEN 0
    ELSE LET j == CHOOSE x \in S : TRUE IN f[j] + SumOver(S \ {j}, f)

MetricRowsOut == metrics.rows

\* the rows of the trailing window of up to 7 rows ending at row i whose error
\* is not NaN
WindowValid(i) ==
    {j \in 1..i : j > i - 7 /\ IsNum(MetricRowsOut[j].error)}

\* C8: gen_metrics returns one row per input row, in order, with
\* error = |actual - predicted_median| (NaN when actual is NaN), MAE the mean
\* of the non-NaN errors of the trailing window of up to 7 rows, RMSE the
\* square root of the mean of their squares, and both NaN exactly when the
\* window holds no non-NaN error.
C8_RollingMetrics ==
    metrics.done =>
        /\ Len(MetricRowsOut) = Len(mdf)
        /\ \A i \in 1..Len(mdf) :
              LET m == MetricRowsOut[i]
                  a == mdf[i].actual
                  p == mdf[i].predicted_median
                  valid == WindowValid(i)
                  errors == [j \in 1..i |-> IF j \in valid THEN MetricRowsOut[j].error.c ELSE 0]
                  squares == [j \in 1..i |-> errors[j] * errors[j]]
              IN  /\ m.actual = a /\ m.predicted_median = p
                  /\ m.error = IF IsNum(a) /\ IsNum(p)
                               THEN Num(IF a.c >= p.c THEN a.c - p.c ELSE p.c - a.c, 0)
                               ELSE NaN
                  /\ (valid = {}) <=> (m.MAE = NaN)
                  /\ (valid = {}) <=> (m.RMSE = NaN)
                  /\ valid # {} =>
                        /\ m.MAE.t = "ratio" /\ m.MAE.d > 0
                        /\ m.MAE.n * Cardinality(valid) = SumOver(valid, errors) * m.MAE.d
                        /\ m.RMSE.t = "sqrt" /\ m.RMSE.d > 0
                        /\ m.RMSE.n * Cardinality(valid) = SumOver(valid, squares) * m.RMSE.d

\* metrics of a table of more than 7 rows that starts with the errors
\* NaN, 2, 4: MAE = 3 and RMSE^2 = 10 at the third row, and the first rows have
\* left the window of the last one
C8_WindowExample ==
    /\ metrics.done
    /\ Len(mdf) > 7
    /\ MetricRowsOut[1].error = NaN
    /\ MetricRowsOut[2].error = Num(2 * Unit, 0)
    /\ MetricRowsOut[3].error = Num(4 * Unit, 0)
    /\ MetricRowsOut[3].MAE = Ratio(6 * Unit, 2)
    /\ MetricRowsOut[3].RMSE = Sqrt(Ratio(20 * Unit * Unit, 2))
    /\ MetricRowsOut[Len(mdf)].MAE.t = "ratio"
    /\ MetricRowsOut[Len(mdf)].MAE.d = 7

\* the columns and the number of rows of a source
Structure(csv) == <<csv.exists, csv.cols, Len(csv.rows)>>

\* C10 as stated: within the cache's validity window the cached loader never
\* returns a cached table for a source whose columns or shape differ from the
\* source the table was computed from.
C10_NoStaleStructure ==
    (served.kind = "hit" /\ Content(served.source).exists) =>
        Structure(Content(served.source)) = Structure(Content(served.from))

====
